---- MODULE Spec2Model ----
(***************************************************************************)
(* Notebook cell execution runtime: the multi-language dispatcher          *)
(* (MultiLanguageExecutionService) and the Python execution service        *)
(* (PythonExecutionService) with its lazily initialised in-process         *)
(* interpreter.                                                            *)
(*                                                                         *)
(* Every executeCode call is an async function.  One action of the model   *)
(* is one run-to-completion segment of such a call: from the call (or from *)
(* the settlement of the promise it awaits) up to the next await on        *)
(* external I/O (script load, loadPyodide, loadPackage, the 100 ms poll    *)
(* timer, the dynamic import of the host API, a host invoke, fetch,        *)
(* response.json) or up to the settlement of the call.  Awaits on promises *)
(* of the services' own async functions resume in the same microtask       *)
(* checkpoint and are part of the segment.                                 *)
(***************************************************************************)
EXTENDS Integers, Sequences, FiniteSets, TLC

\* Bounds of the model
MaxCalls == 2        \* executeCode calls made in one behaviour of Spec, SeqSpec
MaxPyCalls == 3      \* executeCode calls made in one behaviour of PySpec
MaxInFlight == 2     \* calls suspended at an await at the same time
MaxResets == 1       \* reset operations made in one behaviour of SeqSpec
MaxLiveCalls == 2    \* executeCode calls made in one behaviour of LiveSpec
MaxPanelRuns == 2    \* executeCell invocations in one behaviour of PanelSpec
MaxEdits == 1        \* cells added, deleted or changed in one behaviour of PanelSpec
MaxLen == 3          \* characters of a cell's content or of a source fragment
MaxDocCells == 2     \* cells of a notebook document or of a cell list
MaxRows == 150       \* rows of a query result given to the table formatters
MaxStatements == 2   \* print statements of a source given to simulateExecution

\* type SupportedLanguage
SupportedLanguage ==
  {"python", "sql", "rust", "r", "navlambda", "vnc", "javascript", "typescript"}

\* type CellLanguage of the notebook panel (cast to SupportedLanguage unchecked)
CellLanguage ==
  {"vnc", "rust", "python", "sql", "javascript", "typescript",
   "bash", "html", "css", "json"}

Languages == SupportedLanguage \cup CellLanguage

\* Values a throw statement or a rejected promise can carry: an Error object,
\* or null/undefined (eval of "throw null").
Thrown == {"Error", "null"}

\* Source texts given to the calls, by language group.
PySources == {"print('hi')", "x = 1"}
SqlSources == {"SELECT 1", "DROP TABLE t"}
JsSources == {"console.log(1)", "1 + 1", "throw new Error('x')", "throw null"}
AnySource == "code"

----------------------------------------------------------------------------
\* Settlements of an async function: a returned CellExecutionResult, or a throw.

\* success, outputs, execution_count: the fields of CellExecutionResult;
\* outputs is the sequence of the outputs' output_type; ename and evalue are
\* those of the error output ("none" without one); text labels the content of
\* the first non-error output; error is the ename of the optional error field
\* ("none" when the field is absent); backend is the tier that produced it;
\* traceback is that of the error output (<< >> without one).
Return(success, outputs, count, ename, evalue, text, error, backend) ==
  [settle |-> "return", success |-> success, outputs |-> outputs,
   execution_count |-> count, ename |-> ename, evalue |-> evalue,
   text |-> text, error |-> error, backend |-> backend, err |-> "none",
   traceback |-> << >>]

\* a result with an error output whose traceback is the given lines
Traced(result, traceback) == [result EXCEPT !.traceback = traceback]

\* A throw of the value err; evalue is the message of a thrown Error object.
Throw(err, message) ==
  [settle |-> "throw", success |-> FALSE, outputs |-> << >>,
   execution_count |-> 0, ename |-> "none", evalue |-> message,
   text |-> "none", error |-> "none", backend |-> "none", err |-> err,
   traceback |-> << >>]

HasErrorOutput(res) == \E k \in 1..Len(res.outputs) : res.outputs[k] = "error"

\* Reading .message (or .stack) of a thrown value: a TypeError for null and
\* undefined, a value for every Error object.
HasMessage(err) == err # "null"

----------------------------------------------------------------------------
\* MultiLanguageExecutionService: pure parts

\* executionCounts.get(language) || 0
getExecutionCount(counts, language) == counts[language]

\* Mutant of DispatcherCount: (get(language) || 1), the increment forgotten.
DispatcherCount_DefaultOne(counts, language) ==
  IF getExecutionCount(counts, language) = 0
  THEN 1
  ELSE getExecutionCount(counts, language)

\* const count = (this.executionCounts.get(language) || 0) + 1
DispatcherCount(counts, language) == getExecutionCount(counts, language) + 1

\* Mutant of SetCount: vnc stored under the key of the backend it shares.
SetCount_SharedBackend(counts, language, count) ==
  [counts EXCEPT ![IF language = "vnc" THEN "navlambda" ELSE language] = count]

\* this.executionCounts.set(language, count)
SetCount(counts, language, count) == [counts EXCEPT ![language] = count]

\* Mutant of Backend: no default branch, the last case takes what is left.
Backend_DefaultJavaScript(language) ==
  CASE language = "python" -> "python"
    [] language = "sql" -> "sql"
    [] language = "rust" -> "rust"
    [] language = "r" -> "r"
    [] language \in {"navlambda", "vnc"} -> "navlambda"
    [] OTHER -> "javascript"

\* the switch of executeCode: the backend method a language is routed to
Backend(language) ==
  CASE language = "python" -> "python"
    [] language = "sql" -> "sql"
    [] language = "rust" -> "rust"
    [] language = "r" -> "r"
    [] language \in {"navlambda", "vnc"} -> "navlambda"
    [] language \in {"javascript", "typescript"} -> "javascript"
    [] OTHER -> "default"

\* the key whose counter a backend method reads for its own count:
\* a literal in executeSQL, executeRust, executeR and executeNavLambda,
\* the language parameter in executeJavaScript
BackendKey(language) ==
  IF Backend(language) = "javascript" THEN language ELSE Backend(language)

\* const count = (this.executionCounts.get(key) || 0) + 1, evaluated by the
\* backend method after executeCode has stored its own count
BackendCount(counts, language) ==
  getExecutionCount(counts, BackendKey(language)) + 1

\* the catch block of executeCode: evalue is error.message || String(error)
DispatcherCatch(thrown, count) ==
  IF HasMessage(thrown.err)
  THEN Traced(Return(FALSE, <<"error">>, count, "ExecutionError",
                     thrown.evalue, "none", "ExecutionError", "none"),
              <<"String(error)">>)
  ELSE Throw("Error", "TypeError: cannot read properties of null")

\* default: throw new Error(`Unsupported language: ${language}`)
UnsupportedLanguage == Throw("Error", "Unsupported language")

\* return await <backend>(...) inside the try of executeCode
Dispatched(settlement, count) ==
  IF settlement.settle = "throw"
  THEN DispatcherCatch(settlement, count)
  ELSE settlement

\* Mutant of executeSQLWeb: a statement that is not a SELECT is refused.
executeSQLWeb_SelectOnly(code, count) ==
  IF code = "SELECT 1"
  THEN Return(TRUE, <<"execute_result">>, count, "none", "none",
              "Query executed successfully (Simulated)", "none", "simulated")
  ELSE Return(FALSE, <<"error">>, count, "SQLError", "not a SELECT", "none",
              "none", "simulated")

\* Mutant of executeSQLWeb: the SELECT branch is missing.
executeSQLWeb_NoSelectBranch(code, count) ==
  Return(TRUE, <<"stream">>, count, "none", "none",
         "SQL command executed (simulated)", "none", "simulated")

\* executeSQLWeb
executeSQLWeb(code, count) ==
  IF code = "SELECT 1"
  THEN Return(TRUE, <<"execute_result">>, count, "none", "none",
              "Query executed successfully (Simulated)", "none", "simulated")
  ELSE Return(TRUE, <<"stream">>, count, "none", "none",
              "SQL command executed (simulated)", "none", "simulated")

\* the simulated fallbacks of executeRust, executeR and executeNavLambda
Simulated(backend, code, count) ==
  CASE backend = "sql" -> executeSQLWeb(code, count)
    [] backend = "rust" ->
         Return(TRUE, <<"stream">>, count, "none", "none",
                "Rust code compiled and executed (simulated)", "none",
                "simulated")
    [] backend = "r" ->
         Return(TRUE, <<"stream">>, count, "none", "none",
                "R code executed (simulated)", "none", "simulated")
    [] OTHER ->
         Return(TRUE, <<"stream">>, count, "none", "none",
                "NAV code executed (simulated)", "none", "simulated")

\* Replies of the host engine to execute_sql, compile_rust, execute_rust and
\* execute_r: resolved with success and a payload (rows, output), resolved
\* with success and no payload, resolved with success = false, rejected, or
\* resolved with success = false because the timeout passed with the command
\* (options.timeout || 30000) ran out in the host.
HostReplies == {"ok", "okNoPayload", "fail", "reject", "timeout"}
\* Replies to run_live_preview: a JSON string, another string, or rejected.
NavReplies == {"json", "text", "reject"}

\* the host command a delegated backend invokes
Command(backend, compileOnly) ==
  CASE backend = "sql" -> "execute_sql"
    [] backend = "rust" -> IF compileOnly THEN "compile_rust" ELSE "execute_rust"
    [] backend = "r" -> "execute_r"
    [] OTHER -> "run_live_preview"

\* the code after "await invoke(...)" inside the inner try of a delegated
\* backend: a result built from the reply, or a throw to the inner catch
HostResult(backend, cmd, reply, count) ==
  CASE reply = "reject" -> Throw("Error", "invoke rejected")
    [] backend = "sql" ->
         IF reply = "ok"
         THEN Return(TRUE, <<"execute_result">>, count, "none", "none",
                     "table", "none", "tauri")
         ELSE Throw("Error", "SQL execution failed")
    [] backend \in {"rust", "r"} ->
         IF reply \in {"ok", "okNoPayload"}
         THEN Return(TRUE, <<"stream">>, count, "none", "none",
                     IF reply = "ok" THEN "host output"
                     ELSE IF cmd = "compile_rust" THEN "Compilation successful"
                     ELSE IF cmd = "execute_rust" THEN "Execution successful"
                     ELSE "R code executed successfully",
                     "none", "tauri")
         ELSE Throw("Error", "execution failed")
    [] OTHER ->
         IF reply = "json"
         THEN Return(TRUE, <<"execute_result">>, count, "none", "none",
                     "json", "none", "tauri")
         ELSE Return(TRUE, <<"stream">>, count, "none", "none",
                     "host output", "none", "tauri")

\* Mutant of DelegatedSettle: no inner catch, the outer catch reports the
\* host failure.
DelegatedSettle_NoFallback(backend, cmd, reply, code, count) ==
  LET res == HostResult(backend, cmd, reply, count)
  IN  IF res.settle = "throw"
      THEN Return(FALSE, <<"error">>, count, "BackendError", res.evalue,
                  "none", "none", "tauri")
      ELSE res

\* catch (tauriError) { fall through } followed by the simulated fallback
DelegatedSettle(backend, cmd, reply, code, count) ==
  LET res == HostResult(backend, cmd, reply, count)
  IN  IF res.settle = "throw" THEN Simulated(backend, code, count) ELSE res

\* eval(code) in executeJavaScript
Eval(code) ==
  CASE code = "console.log(1)" -> "logs"
    [] code = "1 + 1" -> "silent"
    [] code = "throw null" -> "null"
    [] OTHER -> "Error"

\* Mutant of JavaScriptCatch: the caught value is thrown on.
JavaScriptCatch_Rethrow(err, count) == Throw(err, "none")

\* the catch block of executeJavaScript: error.message is read first
JavaScriptCatch(err, count) ==
  IF HasMessage(err)
  THEN Traced(Return(FALSE, <<"error">>, count, "JavaScriptError", "message",
                     "none", "none", "eval"),
              <<"error.stack">>)
  ELSE Throw("Error", "TypeError: cannot read properties of null")

\* executeJavaScript
executeJavaScript(code, count) ==
  CASE Eval(code) = "logs" ->
         Return(TRUE, <<"stream">>, count, "none", "none", "console output",
                "none", "eval")
    [] Eval(code) = "silent" ->
         Return(TRUE, <<"execute_result">>, count, "none", "none",
                "Code executed successfully", "none", "eval")
    [] OTHER -> JavaScriptCatch(Eval(code), count)

----------------------------------------------------------------------------
\* PythonExecutionService: pure parts

\* What running the cell's code in the interpreter does: leaves a value and
\* output, leaves nothing, or raises.
PyRuns == {"value", "silent", "raise"}
\* Results the host engine (execute_python_code) or the HTTP API
\* (/api/python/execute) hands back: a CellExecutionResult, or a failed call.
PyHostReplies == {"ok", "fail", "reject"}
FetchReplies == {"ok", "notOk", "reject"}

\* Mutant of executeWithPyodide: the retrieval of the traceback is not
\* wrapped in a try of its own.
executeWithPyodide_UnguardedTraceback(py, run, tbOk, count) ==
  IF py = "null" THEN Throw("Error", "Pyodide not initialized")
  ELSE CASE run = "value" ->
              Return(TRUE, <<"stream", "execute_result">>, count, "none",
                     "none", "stdout", "none", "pyodide")
         [] run = "silent" ->
              Return(TRUE, << >>, count, "none", "none", "none", "none",
                     "pyodide")
         [] OTHER ->
              IF tbOk
              THEN Traced(Return(FALSE, <<"error">>, count, "Error",
                                 "traceback[0]", "none", "Error", "pyodide"),
                          <<"traceback[0]", "traceback[1]">>)
              ELSE Throw("Error", "PythonError")

\* executeWithPyodide: run is what runPython(code) does (the value it throws
\* is an Error object, Pyodide's PythonError), tbOk whether the runPython call
\* that retrieves the traceback returns; when it throws, the traceback is
\* made of error.stack
executeWithPyodide(py, run, tbOk, count) ==
  IF py = "null" THEN Throw("Error", "Pyodide not initialized")
  ELSE CASE run = "value" ->
              Return(TRUE, <<"stream", "execute_result">>, count, "none",
                     "none", "stdout", "none", "pyodide")
         [] run = "silent" ->
              Return(TRUE, << >>, count, "none", "none", "none", "none",
                     "pyodide")
         [] OTHER ->
              Traced(Return(FALSE, <<"error">>, count, "Error",
                            IF tbOk THEN "traceback[0]" ELSE "String(error)",
                            "none", "Error", "pyodide"),
                     IF tbOk THEN <<"traceback[0]", "traceback[1]">>
                     ELSE <<"error.stack">>)

\* simulateExecution
simulateExecution(code, count) ==
  IF code = "print('hi')"
  THEN Return(TRUE, <<"stream">>, count, "none", "none", "hi", "none",
              "simulated")
  ELSE Return(TRUE, <<"execute_result">>, count, "none", "none",
              "Code executed successfully (simulated)", "none", "simulated")

\* executeWithTauri / executeWithAPI after the reply: the reply's result with
\* execution_count overwritten, or the simulation when the call failed
PyHostResult(reply, via, code, count) ==
  CASE reply = "ok" ->
         Return(TRUE, <<"stream">>, count, "none", "none", "host output",
                "none", via)
    [] reply = "fail" ->
         Traced(Return(FALSE, <<"error">>, count, "PythonError", "message",
                       "none", "PythonError", via),
                <<"host traceback">>)
    [] OTHER -> simulateExecution(code, count)

\* Mutant of InitDecision: the pyodideLoading check is missing.
InitDecision_IgnoreLoading(py, loading) ==
  IF py # "null" THEN "return" ELSE "start"

\* initializePyodide, before the first await: return at once, wait for the
\* load in progress, or start loading
InitDecision(py, loading) ==
  IF py # "null" THEN "return"
  ELSE IF loading THEN "wait"
  ELSE "start"

\* executeWithBackend: the host engine when window.__TAURI__ is set, the
\* HTTP API otherwise
executeWithBackend(window, tauriPresent) ==
  IF window /\ tauriPresent THEN "py_import" ELSE "py_fetch"

----------------------------------------------------------------------------
\* JupyterNotebookService: pure parts.  A string of source text is a sequence
\* of characters; an absent (undefined) string property is "absent"; an
\* execution count is "null" or a numeral.

Chars == {"a", "\n"}

\* strings of at most n characters
Strings(n) == UNION {[1..k -> Chars] : k \in 0..n}

RECURSIVE Join(_)
\* fragments.join('')
Join(fragments) ==
  IF fragments = << >> THEN << >>
  ELSE Head(fragments) \o Join(Tail(fragments))

RECURSIVE JoinLines(_)
\* Mutant of Join: fragments.join('\n')
JoinLines(fragments) ==
  IF fragments = << >> THEN << >>
  ELSE IF Len(fragments) = 1 THEN Head(fragments)
  ELSE Head(fragments) \o <<"\n">> \o JoinLines(Tail(fragments))

RECURSIVE Split(_)
\* content.split('\n'): the pieces between the newlines, newlines removed
Split(content) ==
  IF \A k \in 1..Len(content) : content[k] # "\n" THEN <<content>>
  ELSE LET k == CHOOSE j \in 1..Len(content) :
                  /\ content[j] = "\n"
                  /\ \A h \in 1..(j - 1) : content[h] # "\n"
       IN  <<SubSeq(content, 1, k - 1)>>
             \o Split(SubSeq(content, k + 1, Len(content)))

\* the source property of a NotebookCell (string | string[], or absent):
\* fragments holds the one string, or the elements of the array
Source(kind, fragments) == [kind |-> kind, fragments |-> fragments]

\* Mutant of normalizeSource: the fragments joined with newlines.
normalizeSource_JoinLines(source) ==
  CASE source.kind = "array" -> Source("string", <<JoinLines(source.fragments)>>)
    [] source.kind = "string" -> source
    [] OTHER -> Source("string", << << >> >>)

\* Array.isArray(source) ? source.join('') : (source || '')
normalizeSource(source) ==
  CASE source.kind = "array" -> Source("string", <<Join(source.fragments)>>)
    [] source.kind = "string" -> source
    [] OTHER -> Source("string", << << >> >>)

\* the optional outputs property of a NotebookCell
Outputs(present, items) == [present |-> present, items |-> items]

\* interface NotebookCell of the document: metadata is its language property
NotebookCell(cell_type, execution_count, id, metadata, source, outputs) ==
  [cell_type |-> cell_type, execution_count |-> execution_count, id |-> id,
   metadata |-> metadata, source |-> source, outputs |-> outputs]

\* interface JupyterNotebook: cellsField tells whether the cells property is
\* an array, absent, or something else ("notArray"); kernelspec is
\* metadata.kernelspec.language, language_info metadata.language_info.name;
\* nbformat is 0 when the property is absent
JupyterNotebook(cellsField, docCells, kernelspec, language_info, nbformat) ==
  [cellsField |-> cellsField, cells |-> docCells, kernelspec |-> kernelspec,
   language_info |-> language_info, nbformat |-> nbformat]

\* the cell of the internal format (the element type of notebookToCells and
\* cellsToNotebook); content is a string
InternalCell(id, type, language, content, executionCount, outputs, metadata) ==
  [id |-> id, type |-> type, language |-> language, content |-> content,
   executionCount |-> executionCount, outputs |-> outputs,
   metadata |-> metadata]

\* Mutant of detectLanguage: the document's tag is read before the cell's.
detectLanguage_DocumentFirst(cell, notebook) ==
  IF notebook.kernelspec # "absent" THEN notebook.kernelspec
  ELSE IF notebook.language_info # "absent" THEN notebook.language_info
  ELSE IF cell.metadata # "absent" THEN cell.metadata
  ELSE IF cell.cell_type = "code" THEN "python" ELSE "markdown"

\* detectLanguage
detectLanguage(cell, notebook) ==
  IF cell.metadata # "absent" THEN cell.metadata
  ELSE IF notebook.kernelspec # "absent" THEN notebook.kernelspec
  ELSE IF notebook.language_info # "absent" THEN notebook.language_info
  ELSE IF cell.cell_type = "code" THEN "python" ELSE "markdown"

\* `cell-${index}` with the 0-based index of map
GeneratedId(k) ==
  CASE k = 1 -> "cell-0" [] k = 2 -> "cell-1" [] k = 3 -> "cell-2"
    [] OTHER -> "cell-3"

\* notebookToCells
notebookToCells(notebook) ==
  [k \in DOMAIN notebook.cells |->
     LET cell == notebook.cells[k]
     IN  InternalCell(
           IF cell.id # "absent" THEN cell.id ELSE GeneratedId(k),
           IF cell.cell_type = "code" THEN "code" ELSE "markdown",
           detectLanguage(cell, notebook),
           normalizeSource(cell.source).fragments[1],
           cell.execution_count,
           IF cell.outputs.present THEN cell.outputs.items ELSE << >>,
           cell.metadata)]

\* Mutant of cellsToNotebook: the document is stamped with format version 3.
cellsToNotebook_Format3(cs, metadata) ==
  JupyterNotebook("array",
    [k \in DOMAIN cs |->
       NotebookCell(
         IF cs[k].type = "code" THEN "code" ELSE "markdown",
         IF cs[k].type = "code" THEN cs[k].executionCount ELSE "null",
         cs[k].id,
         cs[k].metadata,
         [kind |-> "array", fragments |-> Split(cs[k].content)],
         [present |-> cs[k].type = "code",
          items |-> IF cs[k].type = "code" THEN cs[k].outputs ELSE << >>])],
    IF metadata.given THEN metadata.kernelspec ELSE "python",
    IF metadata.given THEN metadata.language_info ELSE "python", 3)

\* the optional metadata argument of cellsToNotebook
Metadata(given, kernelspec, language_info) ==
  [given |-> given, kernelspec |-> kernelspec, language_info |-> language_info]

\* the default metadata block of cellsToNotebook
DefaultMetadata == Metadata(TRUE, "python", "python")

\* cellsToNotebook(cells, metadata)
cellsToNotebook(cs, metadata) ==
  LET md == IF metadata.given THEN metadata ELSE DefaultMetadata
  IN  JupyterNotebook("array",
        [k \in DOMAIN cs |->
           NotebookCell(
             IF cs[k].type = "code" THEN "code" ELSE "markdown",
             IF cs[k].type = "code" THEN cs[k].executionCount ELSE "null",
             cs[k].id,
             cs[k].metadata,
             Source("array", Split(cs[k].content)),
             IF cs[k].type = "code" THEN Outputs(TRUE, cs[k].outputs)
             ELSE Outputs(FALSE, << >>))],
        md.kernelspec, md.language_info, 4)

\* serializeNotebook: JSON.stringify(notebook, null, 2), the text of the
\* document
serializeNotebook(notebook) == [text |-> "json", value |-> notebook]

\* a returned document
Parsed(notebook) ==
  [ok |-> TRUE, notebook |-> notebook, name |-> "none", message |-> "none"]

\* throw new Error(`Failed to parse notebook: ${error.message}`): name is the
\* name property of the thrown object
ParseError(message) ==
  [ok |-> FALSE, notebook |-> "none", name |-> "Error",
   message |-> "Failed to parse notebook: " \o message]

\* Mutant of parseNotebook: the format version is not checked.
parseNotebook_AnyVersion(jsonContent) ==
  IF jsonContent.text # "json" THEN ParseError("Unexpected token")
  ELSE LET notebook == jsonContent.value
       IN  IF notebook.cellsField # "array"
           THEN ParseError("Invalid notebook format: missing cells array")
           ELSE Parsed([notebook EXCEPT !.cells =
                  [k \in DOMAIN notebook.cells |->
                     [notebook.cells[k] EXCEPT !.source =
                        normalizeSource(notebook.cells[k].source)]]])

\* parseNotebook
parseNotebook(jsonContent) ==
  IF jsonContent.text # "json" THEN ParseError("Unexpected token")
  ELSE LET notebook == jsonContent.value
       IN  IF notebook.cellsField # "array"
           THEN ParseError("Invalid notebook format: missing cells array")
           ELSE IF notebook.nbformat = 0 \/ notebook.nbformat < 4
           THEN ParseError("Unsupported notebook format version")
           ELSE Parsed([notebook EXCEPT !.cells =
                  [k \in DOMAIN notebook.cells |->
                     [notebook.cells[k] EXCEPT !.source =
                        normalizeSource(notebook.cells[k].source)]]])

\* the representations formatOutput looks for, in the order it tests them
Preference ==
  <<"image/png", "image/jpeg", "image/svg+xml", "text/html", "text/plain">>

\* Mutant of Selected: text/html is tested before the images.
Selected_HtmlFirst(data) ==
  LET order == <<"text/html", "image/png", "image/jpeg", "image/svg+xml",
                 "text/plain">>
      hits == {k \in 1..Len(order) : data[order[k]] = "value"}
  IN  IF hits = {} THEN "none"
      ELSE order[CHOOSE k \in hits : \A h \in hits : k <= h]

\* the first representation of Preference whose value is truthy (neither
\* absent nor the empty string), "none" without one
Selected(data) ==
  LET hits == {k \in 1..Len(Preference) : data[Preference[k]] = "value"}
  IN  IF hits = {} THEN "none"
      ELSE Preference[CHOOSE k \in hits : \A h \in hits : k <= h]

\* what formatOutput returns: content names the property whose text it is
\* ("" for the empty string)
Formatted(type, content, mimeType) ==
  [type |-> type, content |-> content, mimeType |-> mimeType]

\* formatOutput; output.data maps each representation to "absent", "empty"
\* (the empty string) or "value"
formatOutput(output) ==
  CASE output.output_type = "error" ->
         Formatted("error", "ename, evalue, traceback", "absent")
    [] output.output_type = "stream" -> Formatted("stream", "text", "absent")
    [] output.hasData /\ Selected(output.data) # "none" ->
         LET mime == Selected(output.data)
         IN  CASE mime = "text/html" -> Formatted("html", mime, "absent")
               [] mime = "text/plain" -> Formatted("text", mime, "absent")
               [] OTHER -> Formatted("image", mime, mime)
    [] OTHER -> Formatted("text", "", "absent")

----------------------------------------------------------------------------
\* Inputs of the notebook service

\* fragments of a persisted source array: a line with and without its newline
Fragments == {<<"a">>, <<"a", "\n">>}

\* the source property of a cell of a notebook file
FileSources ==
  {Source("absent", << >>)}
    \cup {Source("string", <<str>>) : str \in Strings(MaxLen)}
    \cup UNION {{Source("array", f) : f \in [1..k -> Fragments]} : k \in 0..3}

\* the first cell of a notebook file: every source, or every combination of
\* cell type, id and language tag
FileCells ==
  {NotebookCell("code", "1", "absent", "absent", src,
                Outputs(TRUE, <<"stream">>)) : src \in FileSources}
    \cup {NotebookCell(t, "null", id, tag, Source("string", <<<<"a">>>>),
                       Outputs(FALSE, << >>)) :
            t \in {"code", "markdown", "raw"}, id \in {"absent", "cell-1"},
            tag \in {"absent", "sql"}}

\* the later cells of a notebook file: with an id of their own, or without
MoreFileCells ==
  {NotebookCell("code", "null", id, "absent", Source("string", <<<<"a">>>>),
                Outputs(TRUE, << >>)) : id \in {"absent", "cell-1", "x"}}

\* cell arrays of a notebook file, of at most MaxDocCells cells
FileCellArrays ==
  {<< >>} \cup
  UNION {{<<c>> \o more : c \in FileCells, more \in [1..k -> MoreFileCells]} :
           k \in 0..(MaxDocCells - 1)}

\* the texts given to parseNotebook: not JSON at all, or the JSON text of an
\* object with or without a cells array, a format version and language tags
Files ==
  {[text |-> "notJson", value |-> "none"]}
    \cup {serializeNotebook(JupyterNotebook(field, << >>, "absent", "absent", v)) :
            field \in {"absent", "notArray"}, v \in {0, 3, 4}}
    \cup {serializeNotebook(JupyterNotebook("array", cs, ks, li, v)) :
            cs \in FileCellArrays, ks \in {"absent", "r"},
            li \in {"absent", "julia"}, v \in {0, 3, 4}}

\* the first cell of a cell list handed to cellsToNotebook: every content,
\* as a code cell of the default or of another language, or as a text cell
ListCells ==
  {InternalCell("c1", "code", l, content, "1", <<"stream">>, "absent") :
     l \in {"python", "sql"}, content \in Strings(MaxLen)}
    \cup {InternalCell("c1", "markdown", "markdown", content, "null", << >>,
                       "absent") : content \in Strings(MaxLen)}

\* the later cells of a cell list
MoreListCells ==
  {InternalCell("c2", "code", "python", <<"a">>, "null", << >>, "absent"),
   InternalCell("c3", "code", "sql", <<"a">>, "1", << >>, "sql")}

\* cell lists of at most MaxDocCells cells
CellLists ==
  {<< >>} \cup
  UNION {{<<c>> \o more : c \in ListCells, more \in [1..k -> MoreListCells]} :
           k \in 0..(MaxDocCells - 1)}

\* outputs given to formatOutput
DataValues == {"absent", "empty", "value"}
NotebookOutputs ==
  {[output_type |-> t, hasData |-> FALSE,
    data |-> [m \in {Preference[k] : k \in 1..Len(Preference)} |-> "absent"]] :
     t \in {"execute_result", "display_data", "stream", "error"}}
    \cup {[output_type |-> t, hasData |-> TRUE, data |-> d] :
            t \in {"execute_result", "display_data"},
            d \in [{Preference[k] : k \in 1..Len(Preference)} -> DataValues]}

\* what the notebook service is given: a cell list (with or without the
\* metadata argument), the text of a file, or an output
Inputs ==
  {[kind |-> "cells", cells |-> cs, metadata |-> md] :
     cs \in CellLists,
     md \in {Metadata(FALSE, "absent", "absent"),
             Metadata(TRUE, "absent", "absent")}}
    \cup {[kind |-> "file", file |-> f] : f \in Files}
    \cup {[kind |-> "output", output |-> o] : o \in NotebookOutputs}

\* formatSQLTable and formatSQLTableHTML

\* rows.slice(0, 100): the number of rows a table shows
RowLimit == 100

Min(a, b) == IF a < b THEN a ELSE b

\* the keys of the rows: Object.keys(rows[0])
Keys == <<"id", "v">>

\* n uniform rows, as the host returns them; v is 0 in every other row
Rows(n) == [i \in 1..n |-> [id |-> i, v |-> i % 2]]

\* String(row[key] || ''): a falsy value is shown as the empty string
Shown(value) == IF value = 0 THEN "" ELSE ToString(value)

\* rows.slice(0, 100)
Slice(rs) == SubSeq(rs, 1, Min(Len(rs), RowLimit))

\* what a formatter returns, by its parts: the message returned instead of a
\* table, or the header, the separator, the data rows and the trailer
\* ("" where the text has no such part)
Table(message, header, separator, dataRows, trailer) ==
  [message |-> message, header |-> header, separator |-> separator,
   dataRows |-> dataRows, trailer |-> trailer]

formatSQLTable_TrailerCountsAll(rs) ==
  IF Len(rs) = 0
    THEN Table("No rows returned", "", "", << >>, "")
    ELSE Table("", "id | v", "--- | ---",
               [i \in 1..Len(Slice(rs)) |->
                  Shown(Slice(rs)[i].id) \o " | " \o Shown(Slice(rs)[i].v)],
               IF Len(rs) > RowLimit
                 THEN "... (" \o ToString(Len(rs)) \o " more rows)"
                 ELSE "")

formatSQLTable(rs) ==
  IF Len(rs) = 0
    THEN Table("No rows returned", "", "", << >>, "")
    ELSE Table("", "id | v", "--- | ---",
               [i \in 1..Len(Slice(rs)) |->
                  Shown(Slice(rs)[i].id) \o " | " \o Shown(Slice(rs)[i].v)],
               IF Len(rs) > RowLimit
                 THEN "... (" \o ToString(Len(rs) - RowLimit) \o " more rows)"
                 ELSE "")

formatSQLTableHTML(rs) ==
  IF Len(rs) = 0
    THEN Table("<div>No rows returned</div>", "", "", << >>, "")
    ELSE Table("", "<tr><th>id</th><th>v</th></tr>", "",
               [i \in 1..Len(Slice(rs)) |->
                  "<tr><td>" \o Shown(Slice(rs)[i].id) \o "</td><td>"
                    \o Shown(Slice(rs)[i].v) \o "</td></tr>"],
               IF Len(rs) > RowLimit
                 THEN "<div>... (" \o ToString(Len(rs) - RowLimit)
                        \o " more rows)</div>"
                 ELSE "")

\* the results a query can have
RowSets == {Rows(n) : n \in 0..MaxRows}


\* simulateExecution, by the text of the source.  A source is the sequence of
\* its print statements, each given by the characters written between
\* "print(" and the ")" that ends the statement, and whether it contains
\* 'import matplotlib'; a text is a sequence of pieces (characters, or a
\* literal of the code as one piece).

IsQuote(c) == c \in {"'", "\""}

\* arguments of the print statements: print(), print('hi'), print("hi"),
\* print(hi), print('h)i'), print('')
PrintArguments ==
  {<< >>,
   <<"'", "h", "i", "'">>,
   <<"\"", "h", "i", "\"">>,
   <<"h", "i">>,
   <<"'", "h", ")", "i", "'">>,
   <<"'", "'">>}

\* the sources: one to MaxStatements print statements
PrintSources ==
  {[statements |-> st, importsMatplotlib |-> im] :
     st \in UNION {[1..n -> PrintArguments] : n \in 1..MaxStatements},
     im \in BOOLEAN}

\* the number of characters of text before the first one that is in stops
Before(text, stops) ==
  IF \E k \in 1..Len(text) : text[k] \in stops
  THEN (CHOOSE k \in 1..Len(text) :
          text[k] \in stops /\ \A j \in 1..(k - 1) : text[j] \notin stops) - 1
  ELSE Len(text)

\* what [^)]+ takes of a statement: the characters up to the first ")"
Inner(argument) ==
  SubSeq(argument, 1, Before(argument, {")"}))

\* the text of a match of /print\s*\([^)]+\)/g whose [^)]+ took inner
MatchText(inner) == <<"print(">> \o inner \o <<")">>

\* code.match(/print\s*\([^)]+\)/g): a statement has a match when [^)]+ has at
\* least one character to take; the match is given by what [^)]+ took
printMatches(statements) ==
  SelectSeq([k \in 1..Len(statements) |-> Inner(statements[k])],
            LAMBDA inner : inner # << >>)

\* match.replace(/print\s*\(['"]?([^'"]+)['"]?\)/, '$1'): an opening quote is
\* skipped, the group takes the characters up to the next quote (at least
\* one), a closing quote is skipped, and ")" must follow; without a match the
\* text stays as it is
Content(inner) ==
  LET r == IF IsQuote(inner[1]) THEN Tail(inner) ELSE inner
      n == Before(r, {"'", "\""})
      rest == SubSeq(r, n + 1, Len(r))
  IN  IF n > 0 /\ (rest = << >> \/ (Len(rest) = 1 /\ IsQuote(rest[1])))
      THEN SubSeq(r, 1, n)
      ELSE MatchText(inner)

\* a NotebookOutput of simulateExecution: text is the text of a stream
\* output, and data['text/plain'] of the other ones
SimulatedOutput(output_type, name, text) ==
  [output_type |-> output_type, name |-> name, text |-> text]

\* simulateExecution(code) with this.executionCount = count
simulateExecutionOutputs(source, count) ==
  LET matches == printMatches(source.statements)
      streams == [k \in 1..Len(matches) |->
                    SimulatedOutput("stream", "stdout",
                                    Content(matches[k]) \o <<"\n">>)]
      outs == IF source.importsMatplotlib
              THEN Append(streams,
                          SimulatedOutput("display_data", "none",
                                          <<"<matplotlib.figure.Figure>">>))
              ELSE streams
  IN  [success |-> TRUE,
       outputs |-> IF Len(outs) = 0
                   THEN <<SimulatedOutput("execute_result", "none",
                            <<"Code executed successfully (simulated)">>)>>
                   ELSE outs,
       execution_count |-> count]


----------------------------------------------------------------------------
VARIABLES
  executionCounts,  \* MultiLanguageExecutionService.executionCounts (absent = 0)
  executionCount,   \* PythonExecutionService.executionCount
  pyodide,          \* PythonExecutionService.pyodide: "null" or "handle"
  pyodideLoading,   \* PythonExecutionService.pyodideLoading
  loadPyodide,      \* window.loadPyodide is defined (the CDN script has run)
  hasWindow,        \* typeof window !== 'undefined'
  tauri,            \* window.__TAURI__ is set
  calls,            \* the executeCode calls suspended at an await
  issued,           \* history: number of executeCode calls made
  started,          \* history: number of executeCode calls made per language
  inits,            \* history: outcome of every load sequence started
  lastResult,       \* history: the settlement the latest finished call got
  returned,         \* history: execution counts returned so far per language
  lastWaiter,       \* history: what the latest caller leaving the poll loop saw
  resets,           \* history: number of reset operations made
  lastReset,        \* history: the argument of the latest reset operation
  cells,            \* NotebookPanel: the cells state (a sequence of cells)
  executions,       \* NotebookPanel: executeCell invocations awaiting executeCode
  runAll,           \* NotebookPanel: cells the executeAllCells loop has yet to run
  now,              \* NotebookPanel: Date.now() of the latest cell added
  panelRuns,        \* history: number of executeCell invocations made
  edits,            \* history: number of cells added, deleted or changed
  input,            \* what the notebook service is given
  notebook,         \* the document cellsToNotebook returned
  json,             \* the text serializeNotebook returned, or the file's text
  parsed,           \* what parseNotebook returned or threw
  cellsOut,         \* the cells notebookToCells returned
  formatted,        \* what formatOutput returned
  done,             \* the operations of the notebook service applied so far
  rows,             \* the rows given to the table formatters
  table,            \* what formatSQLTable and formatSQLTableHTML returned
  source,           \* the source given to simulateExecution
  simulated         \* what simulateExecution returned (<< >> before the call)

env == <<hasWindow, tauri>>
panelvars == <<cells, executions, runAll, now, panelRuns, edits>>
nbvars == <<input, notebook, json, parsed, cellsOut, formatted, done>>
tablevars == <<rows, table>>
simvars == <<source, simulated>>
\* the state of the components a dispatcher step does not touch
aux == <<panelvars, nbvars, tablevars, simvars>>
pyvars == <<executionCount, pyodide, pyodideLoading, loadPyodide, inits, lastWaiter>>
vars == <<executionCounts, executionCount, pyodide, pyodideLoading, loadPyodide,
          hasWindow, tauri, calls, issued, started, inits, lastResult,
          returned, lastWaiter, resets, lastReset, cells, executions, runAll,
          now,
          panelRuns, edits, input, notebook, json, parsed, cellsOut,
          formatted, done, rows, table, source, simulated>>

Slots == 1..MaxInFlight

Idle ==
  [lang |-> "none", pc |-> "idle", code |-> "none", count |-> 0, dcount |-> 0,
   cmd |-> "none", init |-> 0, compileOnly |-> FALSE]

Suspended(lang, pc, code, count, dcount, cmd, init) ==
  [lang |-> lang, pc |-> pc, code |-> code, count |-> count,
   dcount |-> dcount, cmd |-> cmd, init |-> init, compileOnly |-> FALSE]

Free == {i \in Slots : calls[i].pc = "idle"}

NoResult ==
  [lang |-> "none", code |-> "none", seq |-> 0, dcount |-> 0, tier |-> "none",
   threw |-> FALSE, res |-> Throw("none", "none")]

ExecSlots == 1..MaxPanelRuns

NoExecution ==
  [cell |-> 0, by |-> "none", lang |-> "none", executionCount |-> 0,
   dcount |-> 0, count |-> 0]

\* interface NotebookCell of the panel: output is the sequence of texts the
\* output string is made of (empty for '' and undefined); executionCount is
\* metadata.executionCount
Cell(id, type, language) ==
  [id |-> id, type |-> type, language |-> language, isExecuting |-> FALSE,
   output |-> << >>, executionCount |-> 0]

\* useState of NotebookPanel: a markdown cell and a python code cell
PanelInit ==
  /\ cells = <<Cell(1, "markdown", "vnc"), Cell(2, "code", "python")>>
  /\ executions = [e \in ExecSlots |-> NoExecution]
  /\ runAll = << >>
  /\ now = 2
  /\ panelRuns = 0
  /\ edits = 0

\* the notebook service and the table formatters have been given nothing
NotebookIdle ==
  /\ input = [kind |-> "none"]
  /\ notebook = "none"
  /\ json = "none"
  /\ parsed = "none"
  /\ cellsOut = "none"
  /\ formatted = "none"
  /\ done = {}

\* table holds what each formatter returned, << >> before it is called
NoTable == [plain |-> << >>, html |-> << >>]

TableIdle == rows = << >> /\ table = NoTable

\* simulateExecution has been given nothing
SimIdle ==
  /\ source = [statements |-> << >>, importsMatplotlib |-> FALSE]
  /\ simulated = << >>

\* the two services after construction
ServicesInit ==
  /\ executionCounts = [l \in Languages |-> 0]
  /\ executionCount = 0
  /\ pyodide = "null"
  /\ pyodideLoading = FALSE
  /\ loadPyodide = FALSE
  /\ hasWindow \in BOOLEAN
  /\ tauri \in (IF hasWindow THEN BOOLEAN ELSE {FALSE})
  /\ calls = [i \in Slots |-> Idle]
  /\ issued = 0
  /\ started = [l \in Languages |-> 0]
  /\ inits = << >>
  /\ lastResult = NoResult
  /\ returned = [l \in Languages |-> {}]
  /\ lastWaiter = [init |-> 0, saw |-> "none"]
  /\ resets = 0
  /\ lastReset = "none"

Init == ServicesInit /\ PanelInit /\ NotebookIdle /\ TableIdle /\ SimIdle

\* return await <backend> in the try of executeCode, and the settlement the
\* caller of executeCode gets: settlement is the backend's, dcount the count
\* executeCode took on entry, tier how the host engine attempt ended.
Finish(lang, code, dcount, tier, settlement) ==
  LET res == Dispatched(settlement, dcount)
  IN  /\ lastResult' = [lang |-> lang, code |-> code,
                        seq |-> lastResult.seq + 1,
                        dcount |-> dcount, tier |-> tier,
                        threw |-> (settlement.settle = "throw"), res |-> res]
      /\ returned' =
           IF res.settle = "return"
           THEN [returned EXCEPT ![lang] = @ \cup {res.execution_count}]
           ELSE returned

\* executeCode, first two statements: count the call and store the count.
Enter(language) ==
  /\ issued' = issued + 1
  /\ started' = [started EXCEPT ![language] = @ + 1]
  /\ executionCounts' =
       SetCount(executionCounts, language,
                DispatcherCount(executionCounts, language))
  /\ UNCHANGED <<env, resets, lastReset, aux>>

\* A later segment of a suspended call.
Resume(i) ==
  UNCHANGED <<executionCounts, issued, started, env, resets, lastReset, aux>>

----------------------------------------------------------------------------
\* executeCode for a language outside the switch: default branch, caught
ExecuteDefault(language) ==
  /\ Backend(language) = "default"
  /\ Enter(language)
  /\ Finish(language, AnySource, executionCounts'[language], "none",
            UnsupportedLanguage)
  /\ UNCHANGED <<pyvars, calls>>

\* executeCode for javascript and typescript: executeJavaScript has no await
ExecuteJavaScript(language, code) ==
  /\ Backend(language) = "javascript"
  /\ Enter(language)
  /\ Finish(language, code, executionCounts'[language], "none",
            executeJavaScript(code, BackendCount(executionCounts', language)))
  /\ UNCHANGED <<pyvars, calls>>

\* executeCode for sql, rust, r, navlambda and vnc, up to the await of the
\* import of the host API, or to the simulated result without a host
ExecuteDelegated(language, code, compileOnly) ==
  /\ Backend(language) \in {"sql", "rust", "r", "navlambda"}
  /\ Enter(language)
  /\ LET dcount == executionCounts'[language]
         count == BackendCount(executionCounts', language)
     IN  IF hasWindow /\ tauri
         THEN /\ \E i \in Free :
                   /\ \A j \in Free : i <= j
                   /\ calls' = [calls EXCEPT ![i] =
                        [Suspended(language, "import", code, count, dcount,
                                   Command(Backend(language), compileOnly), 0)
                           EXCEPT !.compileOnly = compileOnly]]
              /\ UNCHANGED <<lastResult, returned>>
         ELSE /\ Finish(language, code, dcount, "absent",
                        Simulated(Backend(language), code, count))
              /\ UNCHANGED calls
  /\ UNCHANGED pyvars

\* await import('@tauri-apps/api/tauri') settles
ImportSettled(i, ok) ==
  /\ calls[i].pc = "import"
  /\ Resume(i)
  /\ IF ok
     THEN /\ calls' = [calls EXCEPT ![i].pc = "invoke"]
          /\ UNCHANGED <<lastResult, returned>>
     ELSE /\ calls' = [calls EXCEPT ![i] = Idle]
          /\ Finish(calls[i].lang, calls[i].code, calls[i].dcount, "importFail",
                    Simulated(Backend(calls[i].lang), calls[i].code,
                              calls[i].count))
  /\ UNCHANGED pyvars

\* await invoke(cmd, ...) settles
InvokeSettled(i, reply) ==
  /\ calls[i].pc = "invoke"
  /\ reply \in (IF calls[i].cmd = "run_live_preview"
                THEN NavReplies ELSE HostReplies)
  /\ Resume(i)
  /\ calls' = [calls EXCEPT ![i] = Idle]
  /\ Finish(calls[i].lang, calls[i].code, calls[i].dcount, reply,
            DelegatedSettle(Backend(calls[i].lang), calls[i].cmd, reply,
                            calls[i].code, calls[i].count))
  /\ UNCHANGED pyvars

----------------------------------------------------------------------------
\* PythonExecutionService

\* Mutant of InitFailed: no finally block, pyodideLoading stays set after a
\* failed load.
InitFailed_NoFinally(i) ==
  /\ pyodide' = "null"
  /\ pyodideLoading' = pyodideLoading
  /\ inits' = [inits EXCEPT ![calls[i].init] = "fail"]
  /\ calls' = [calls EXCEPT ![i].pc = executeWithBackend(hasWindow, tauri)]
  /\ UNCHANGED <<executionCount, loadPyodide, lastWaiter, lastResult, returned>>

\* catch and finally of initializePyodide, then tryInitializePyodide returns
\* false and executeCode goes on to executeWithBackend
InitFailed(i) ==
  /\ pyodide' = "null"
  /\ pyodideLoading' = FALSE
  /\ inits' = [inits EXCEPT ![calls[i].init] = "fail"]
  /\ calls' = [calls EXCEPT ![i].pc = executeWithBackend(hasWindow, tauri)]
  /\ UNCHANGED <<executionCount, loadPyodide, lastWaiter, lastResult, returned>>

\* executeCode('python'): the dispatcher's entry, executionCount++, and
\* this.pyodide || await tryInitializePyodide() up to its first await
ExecutePython(code, run, tbOk) ==
  /\ Backend("python") = "python"
  /\ Enter("python")
  /\ executionCount' = executionCount + 1
  /\ LET dcount == executionCounts'["python"]
         decision == InitDecision(pyodide, pyodideLoading)
     IN  CASE decision = "return" ->
                /\ Finish("python", code, dcount, "none",
                          executeWithPyodide(pyodide, run, tbOk,
                                             executionCount'))
                /\ UNCHANGED <<calls, pyodideLoading, inits>>
           [] decision = "wait" ->
                /\ \E i \in Free :
                     /\ \A j \in Free : i <= j
                     /\ calls' = [calls EXCEPT ![i] =
                          Suspended("python", "poll", code, 0, dcount, "none",
                                    Len(inits))]
                /\ UNCHANGED <<pyodideLoading, inits, lastResult, returned>>
           [] OTHER ->
                /\ \E i \in Free :
                     /\ \A j \in Free : i <= j
                     /\ calls' = [calls EXCEPT ![i] =
                          Suspended("python",
                                    IF ~hasWindow
                                    THEN executeWithBackend(hasWindow, tauri)
                                    ELSE IF loadPyodide THEN "loadPyodide"
                                    ELSE "script",
                                    code, 0, dcount, "none",
                                    IF hasWindow THEN Len(inits) + 1 ELSE 0)]
                /\ pyodideLoading' = hasWindow
                /\ inits' = IF hasWindow THEN Append(inits, "running")
                            ELSE inits
                /\ UNCHANGED <<lastResult, returned>>
  /\ UNCHANGED <<pyodide, loadPyodide, lastWaiter>>

\* the CDN script element fires onload or onerror
ScriptSettled(i, ok) ==
  /\ calls[i].pc = "script"
  /\ Resume(i)
  /\ IF ok
     THEN /\ loadPyodide' = TRUE
          /\ calls' = [calls EXCEPT ![i].pc = "loadPyodide"]
          /\ UNCHANGED <<executionCount, pyodide, pyodideLoading, inits,
                         lastWaiter, lastResult, returned>>
     ELSE InitFailed(i)

\* this.pyodide = await loadPyodide(...) settles
LoadPyodideSettled(i, ok) ==
  /\ calls[i].pc = "loadPyodide"
  /\ Resume(i)
  /\ IF ok
     THEN /\ pyodide' = "handle"
          /\ calls' = [calls EXCEPT ![i].pc = "loadPackage"]
          /\ UNCHANGED <<executionCount, pyodideLoading, loadPyodide, inits,
                         lastWaiter, lastResult, returned>>
     ELSE InitFailed(i)

\* await this.pyodide.loadPackage(...) settles; on success the matplotlib
\* set-up runs (setupOk), initialization ends and the code is run
LoadPackageSettled(i, ok, setupOk, run, tbOk) ==
  /\ calls[i].pc = "loadPackage"
  /\ Resume(i)
  /\ IF ok /\ setupOk
     THEN /\ pyodideLoading' = FALSE
          /\ inits' = [inits EXCEPT ![calls[i].init] = "ok"]
          /\ calls' = [calls EXCEPT ![i] = Idle]
          /\ Finish("python", calls[i].code, calls[i].dcount, "none",
                    executeWithPyodide(pyodide, run, tbOk, executionCount))
          /\ UNCHANGED <<executionCount, pyodide, loadPyodide, lastWaiter>>
     ELSE InitFailed(i)

\* the 100 ms timer of the wait loop fires and the load is over
PollWake(i, run, tbOk) ==
  /\ calls[i].pc = "poll"
  /\ ~pyodideLoading
  /\ Resume(i)
  /\ lastWaiter' = [init |-> calls[i].init,
                    saw |-> IF pyodide # "null" THEN "ok" ELSE "fail"]
  /\ IF pyodide # "null"
     THEN /\ calls' = [calls EXCEPT ![i] = Idle]
          /\ Finish("python", calls[i].code, calls[i].dcount, "none",
                    executeWithPyodide(pyodide, run, tbOk, executionCount))
     ELSE /\ calls' = [calls EXCEPT ![i].pc =
                          executeWithBackend(hasWindow, tauri)]
          /\ UNCHANGED <<lastResult, returned>>
  /\ UNCHANGED <<executionCount, pyodide, pyodideLoading, loadPyodide, inits>>

\* executeWithTauri: await import('@tauri-apps/api/tauri') settles
PyImportSettled(i, ok) ==
  /\ calls[i].pc = "py_import"
  /\ Resume(i)
  /\ IF ok
     THEN /\ calls' = [calls EXCEPT ![i].pc = "py_invoke"]
          /\ UNCHANGED <<lastResult, returned>>
     ELSE /\ calls' = [calls EXCEPT ![i] = Idle]
          /\ Finish("python", calls[i].code, calls[i].dcount, "importFail",
                    simulateExecution(calls[i].code, executionCount))
  /\ UNCHANGED pyvars

\* executeWithTauri: await invoke('execute_python_code', ...) settles
PyInvokeSettled(i, reply) ==
  /\ calls[i].pc = "py_invoke"
  /\ Resume(i)
  /\ calls' = [calls EXCEPT ![i] = Idle]
  /\ Finish("python", calls[i].code, calls[i].dcount, reply,
            PyHostResult(reply, "tauri", calls[i].code, executionCount))
  /\ UNCHANGED pyvars

\* executeWithAPI: await fetch('/api/python/execute', ...) settles
PyFetchSettled(i, reply) ==
  /\ calls[i].pc = "py_fetch"
  /\ Resume(i)
  /\ IF reply = "ok"
     THEN /\ calls' = [calls EXCEPT ![i].pc = "py_json"]
          /\ UNCHANGED <<lastResult, returned>>
     ELSE /\ calls' = [calls EXCEPT ![i] = Idle]
          /\ Finish("python", calls[i].code, calls[i].dcount, reply,
                    simulateExecution(calls[i].code, executionCount))
  /\ UNCHANGED pyvars

\* executeWithAPI: await response.json() settles
PyJsonSettled(i, reply) ==
  /\ calls[i].pc = "py_json"
  /\ Resume(i)
  /\ calls' = [calls EXCEPT ![i] = Idle]
  /\ Finish("python", calls[i].code, calls[i].dcount, reply,
            PyHostResult(reply, "api", calls[i].code, executionCount))
  /\ UNCHANGED pyvars

----------------------------------------------------------------------------
\* A reset operation is made.
Reset ==
  /\ resets < MaxResets
  /\ resets' = resets + 1
  /\ UNCHANGED aux

\* MultiLanguageExecutionService.resetExecutionCount(language)
resetExecutionCount(language) ==
  /\ executionCounts' = SetCount(executionCounts, language, 0)
  /\ lastReset' = language
  /\ Reset
  /\ UNCHANGED <<pyvars, env, calls, issued, started, lastResult, returned>>

\* MultiLanguageExecutionService.resetExecutionCount()
resetExecutionCountAll ==
  /\ executionCounts' = [l \in Languages |-> 0]
  /\ lastReset' = "all"
  /\ Reset
  /\ UNCHANGED <<pyvars, env, calls, issued, started, lastResult, returned>>

\* PythonExecutionService.resetExecutionCount()
pyResetExecutionCount ==
  /\ executionCount' = 0
  /\ lastReset' = "PythonExecutionService"
  /\ Reset
  /\ UNCHANGED <<executionCounts, pyodide, pyodideLoading, loadPyodide, inits,
                 lastWaiter, env, calls, issued, started, lastResult, returned>>

\* A caller makes an executeCode call.
Call ==
  \/ \E l \in Languages : ExecuteDefault(l)
  \/ \E l \in Languages, c \in JsSources : ExecuteJavaScript(l, c)
  \/ \E l \in Languages, c \in SqlSources \cup {AnySource}, co \in BOOLEAN :
       /\ c \in (IF Backend(l) = "sql" THEN SqlSources ELSE {AnySource})
       /\ co \in (IF Backend(l) = "rust" THEN BOOLEAN ELSE {FALSE})
       /\ ExecuteDelegated(l, c, co)
  \/ \E c \in PySources, run \in PyRuns, tbOk \in BOOLEAN :
       ExecutePython(c, run, tbOk)

\* A promise awaited by a suspended Python call settles.
PySettle ==
  \/ \E i \in Slots, ok \in BOOLEAN : ScriptSettled(i, ok)
  \/ \E i \in Slots, ok \in BOOLEAN : LoadPyodideSettled(i, ok)
  \/ \E i \in Slots, ok \in BOOLEAN, setupOk \in BOOLEAN, run \in PyRuns,
        tbOk \in BOOLEAN : LoadPackageSettled(i, ok, setupOk, run, tbOk)
  \/ \E i \in Slots, ok \in BOOLEAN : PyImportSettled(i, ok)
  \/ \E i \in Slots, reply \in PyHostReplies : PyInvokeSettled(i, reply)
  \/ \E i \in Slots, reply \in FetchReplies : PyFetchSettled(i, reply)
  \/ \E i \in Slots, reply \in PyHostReplies : PyJsonSettled(i, reply)

\* The poll timer of a call waiting for another call's initialization fires.
PollTimer ==
  \E i \in Slots, run \in PyRuns, tbOk \in BOOLEAN : PollWake(i, run, tbOk)

\* A promise awaited by a suspended call of a delegated language settles.
DelegatedSettled ==
  \/ \E i \in Slots, ok \in BOOLEAN : ImportSettled(i, ok)
  \/ \E i \in Slots, reply \in HostReplies \cup NavReplies :
       InvokeSettled(i, reply)

\* A caller makes a reset.
Resets ==
  \/ \E l \in Languages : resetExecutionCount(l)
  \/ resetExecutionCountAll
  \/ pyResetExecutionCount

\* Calls of every language, made at any time, also while others are in flight.
Next ==
  \/ issued < MaxCalls /\ Call
  \/ PySettle
  \/ PollTimer
  \/ DelegatedSettled

Spec == Init /\ [][Next]_vars

\* Calls and resets made one after another: a call is made only when no other
\* call is in flight (so no call ever waits for another call's initialization).
SeqNext ==
  \/ issued < MaxCalls /\ Free = Slots /\ Call
  \/ PySettle
  \/ DelegatedSettled
  \/ Free = Slots /\ Resets

SeqSpec == Init /\ [][SeqNext]_vars

\* Python calls only, made at any time.
PyNext ==
  \/ /\ issued < MaxPyCalls
     /\ \E c \in PySources, run \in PyRuns, tbOk \in BOOLEAN :
          ExecutePython(c, run, tbOk)
  \/ PySettle
  \/ PollTimer

PySpec == Init /\ [][PyNext]_vars

\* The promise the call in slot i awaits settles, or its poll timer fires and
\* finds the load over.
Settles(i) ==
  \/ \E ok \in BOOLEAN : ScriptSettled(i, ok)
  \/ \E ok \in BOOLEAN : LoadPyodideSettled(i, ok)
  \/ \E ok \in BOOLEAN, setupOk \in BOOLEAN, run \in PyRuns, tbOk \in BOOLEAN :
       LoadPackageSettled(i, ok, setupOk, run, tbOk)
  \/ \E run \in PyRuns, tbOk \in BOOLEAN : PollWake(i, run, tbOk)
  \/ \E ok \in BOOLEAN : PyImportSettled(i, ok)
  \/ \E reply \in PyHostReplies : PyInvokeSettled(i, reply)
  \/ \E reply \in FetchReplies : PyFetchSettled(i, reply)
  \/ \E reply \in PyHostReplies : PyJsonSettled(i, reply)
  \/ \E ok \in BOOLEAN : ImportSettled(i, ok)
  \/ \E reply \in HostReplies \cup NavReplies : InvokeSettled(i, reply)

\* Calls for python (in-process interpreter, host engine, HTTP API) and for
\* sql (host engine) with one source text each, made at any time.
LiveNext ==
  \/ /\ issued < MaxLiveCalls
     /\ \/ \E run \in PyRuns : ExecutePython("print('hi')", run, TRUE)
        \/ ExecuteDelegated("sql", "SELECT 1", FALSE)
  \/ PySettle
  \/ PollTimer
  \/ DelegatedSettled

\* LiveNext where every script load, host call and HTTP call that was started
\* completes or fails, and the 100 ms timer of a waiting call keeps firing.
LiveSpec == Init /\ [][LiveNext]_vars /\ \A i \in Slots : WF_vars(Settles(i))

----------------------------------------------------------------------------
\* NotebookPanel

\* languages the language menu is used with here: the default of a new cell,
\* and the one the panel renames for the dispatcher (vnc)
PanelLanguages == {"python", "vnc"}

\* the dispatcher's results an awaited executeCode(lang, content) call can
\* resolve to; e is the execution (count and dcount as taken at the call)
executeCodeResults(e) ==
  LET b == Backend(e.lang)
      via == IF hasWindow /\ tauri THEN "tauri" ELSE "api"
  IN  CASE b = "python" ->
             {executeWithPyodide("handle", run, TRUE, executionCount) :
                run \in PyRuns}
             \cup {PyHostResult(r, via, "x = 1", executionCount) :
                     r \in PyHostReplies}
        [] b = "javascript" ->
             {Dispatched(executeJavaScript(c, e.count), e.dcount) :
                c \in JsSources}
        [] b = "default" -> {Dispatched(UnsupportedLanguage, e.dcount)}
        [] hasWindow /\ tauri ->
             {DelegatedSettle(b, Command(b, FALSE), r, "SELECT 1", e.count) :
                r \in IF b = "navlambda" THEN NavReplies ELSE HostReplies}
        [] OTHER -> {Simulated(b, "SELECT 1", e.count)}

\* setCells(prev => prev.map(c => c.id === id ? {...c, isExecuting: true} : c))
SetExecuting(cs, id) ==
  [k \in DOMAIN cs |->
     IF cs[k].id = id THEN [cs[k] EXCEPT !.isExecuting = TRUE] ELSE cs[k]]

\* Mutant of SetExecuted: the new output is appended to the cell's output.
SetExecuted_Appends(cs, id, output, count) ==
  [k \in DOMAIN cs |->
     IF cs[k].id = id
     THEN [cs[k] EXCEPT !.isExecuting = FALSE,
                       !.output = Append(cs[k].output, output),
                       !.executionCount = count]
     ELSE cs[k]]

\* the setCells call after the await: the new output and execution count
\* replace the old ones
SetExecuted(cs, id, output, count) ==
  [k \in DOMAIN cs |->
     IF cs[k].id = id
     THEN [cs[k] EXCEPT !.isExecuting = FALSE, !.output = <<output>>,
                       !.executionCount = count]
     ELSE cs[k]]

\* "Process Output" of executeCell: the joined text of the outputs, or the
\* success / failure line when that text is empty
Output(res) ==
  IF Len(res.outputs) > 0 THEN "outputs"
  ELSE IF res.success THEN "Executed successfully"
  ELSE "Execution failed"

\* executeCell(id) up to its await of executeCode: cell is the cell found in
\* the cells of the render the handler belongs to, cs the cells state the
\* queued update is applied to
executeCell(cell, by, slot, cs) ==
  LET lang == IF cell.language = "vnc" THEN "navlambda" ELSE cell.language
      counts == SetCount(executionCounts, lang,
                         DispatcherCount(executionCounts, lang))
  IN  /\ cell.type = "code"
      /\ cells' = SetExecuting(cs, cell.id)
      /\ executionCounts' = counts
      /\ executionCount' =
           IF Backend(lang) = "python" THEN executionCount + 1
           ELSE executionCount
      /\ executions' = [executions EXCEPT ![slot] =
           [cell |-> cell.id, by |-> by, lang |-> lang,
            executionCount |-> cell.executionCount + 1,
            dcount |-> counts[lang],
            count |-> IF Backend(lang) = "default" THEN 0
                      ELSE BackendCount(counts, lang)]]
      /\ panelRuns' = panelRuns + 1

FreeExec == {e \in ExecSlots : executions[e].by = "none"}

\* what a step of the panel leaves alone
PanelFrame ==
  UNCHANGED <<pyodide, pyodideLoading, loadPyodide, hasWindow, tauri, calls,
              issued, started, inits, lastResult, returned, lastWaiter, resets,
              lastReset, nbvars, tablevars, simvars>>

\* An edit of the notebook is made.
Edit ==
  /\ edits < MaxEdits
  /\ edits' = edits + 1
  /\ UNCHANGED <<executionCounts, executionCount, executions, runAll, panelRuns>>
  /\ PanelFrame

\* addCell('code') / addCell('markdown'): the new cell's id is Date.now()
addCell(type) ==
  /\ now' = now + 1
  /\ cells' = Append(cells, Cell(now + 1, type, "python"))
  /\ Edit

\* changeCellLanguage(id, language), from the language menu of a code cell
changeCellLanguage(k, language) ==
  /\ k \in DOMAIN cells
  /\ cells[k].type = "code"
  /\ cells[k].language # language
  /\ cells' = [cells EXCEPT ![k].language = language]
  /\ UNCHANGED now
  /\ Edit

\* deleteCell(id)
deleteCell(k) ==
  /\ k \in DOMAIN cells
  /\ cells' = SelectSeq(cells, LAMBDA c : c.id # cells[k].id)
  /\ UNCHANGED now
  /\ Edit

\* the Run Cell button, disabled while cell.isExecuting
ClickRun(k) ==
  /\ k \in DOMAIN cells
  /\ ~cells[k].isExecuting
  /\ \E slot \in FreeExec :
       /\ \A o \in FreeExec : slot <= o
       /\ executeCell(cells[k], "button", slot, cells)
  /\ UNCHANGED <<runAll, now, edits>>
  /\ PanelFrame

\* Shift+Enter in the editor of a code cell
ShiftEnter(k) ==
  /\ k \in DOMAIN cells
  /\ \E slot \in FreeExec :
       /\ \A o \in FreeExec : slot <= o
       /\ executeCell(cells[k], "key", slot, cells)
  /\ UNCHANGED <<runAll, now, edits>>
  /\ PanelFrame

\* the Run All button: executeAllCells up to the await of the first
\* executeCell; the loop runs over the cells of the render it was made in
executeAllCells ==
  LET code == SelectSeq(cells, LAMBDA c : c.type = "code")
  IN  /\ \A e \in ExecSlots : executions[e].by # "all"
      /\ Len(code) > 0
      /\ \E slot \in FreeExec :
           /\ \A o \in FreeExec : slot <= o
           /\ executeCell(Head(code), "all", slot, cells)
      /\ runAll' = Tail(code)
      /\ UNCHANGED <<now, edits>>
      /\ PanelFrame

\* the executeCode call awaited by execution e resolves to res: the rest of
\* executeCell, and for Run All the next turn of its loop
ExecuteCodeSettled(e, res) ==
  LET x == executions[e]
      executed == SetExecuted(cells, x.cell, Output(res),
                          IF res.execution_count # 0 THEN res.execution_count
                          ELSE x.executionCount)
  IN  /\ x.by # "none"
      /\ res \in executeCodeResults(x)
      /\ IF x.by = "all" /\ Len(runAll) > 0
         THEN /\ executeCell(Head(runAll), "all", e, executed)
              /\ runAll' = Tail(runAll)
         ELSE /\ cells' = executed
              /\ executions' = [executions EXCEPT ![e] = NoExecution]
              /\ UNCHANGED <<executionCounts, executionCount, runAll,
                             panelRuns>>
      /\ UNCHANGED <<now, edits>>
      /\ PanelFrame

PanelNext ==
  \/ \E type \in {"code", "markdown"} : addCell(type)
  \/ \E k \in DOMAIN cells, l \in PanelLanguages : changeCellLanguage(k, l)
  \/ \E k \in DOMAIN cells : deleteCell(k)
  \/ panelRuns < MaxPanelRuns /\ \E k \in DOMAIN cells : ClickRun(k)
  \/ panelRuns < MaxPanelRuns /\ \E k \in DOMAIN cells : ShiftEnter(k)
  \/ panelRuns < MaxPanelRuns /\ executeAllCells
  \/ \E e \in ExecSlots :
       \E res \in executeCodeResults(executions[e]) : ExecuteCodeSettled(e, res)

\* The panel is a client component: it runs in a browser (here without the
\* host engine).
PanelStart == Init /\ hasWindow /\ ~tauri

PanelSpec == PanelStart /\ [][PanelNext]_vars

----------------------------------------------------------------------------
\* JupyterNotebookService and the table formatters

\* what a step of the notebook service or of a formatter leaves alone
PureFrame ==
  UNCHANGED <<executionCounts, executionCount, pyodide, pyodideLoading,
              loadPyodide, hasWindow, tauri, calls, issued, started, inits,
              lastResult, returned, lastWaiter, resets, lastReset,
              panelvars, simvars>>

\* the service is given a cell list, the text of a file, or an output
NotebookInit ==
  /\ input \in Inputs
  /\ notebook = "none"
  /\ json = IF input.kind = "file" THEN input.file ELSE "none"
  /\ parsed = "none"
  /\ cellsOut = "none"
  /\ formatted = "none"
  /\ done = IF input.kind = "file" THEN {"json"} ELSE {}

\* notebook = cellsToNotebook(cells, metadata)
CellsToNotebook ==
  /\ input.kind = "cells"
  /\ "notebook" \notin done
  /\ notebook' = cellsToNotebook(input.cells, input.metadata)
  /\ done' = done \cup {"notebook"}
  /\ UNCHANGED <<input, json, parsed, cellsOut, formatted, tablevars>>
  /\ PureFrame

\* json = serializeNotebook(notebook)
SerializeNotebook ==
  /\ "notebook" \in done
  /\ "json" \notin done
  /\ json' = serializeNotebook(notebook)
  /\ done' = done \cup {"json"}
  /\ UNCHANGED <<input, notebook, parsed, cellsOut, formatted, tablevars>>
  /\ PureFrame

\* parsed = parseNotebook(json), or the Error it throws
ParseNotebook ==
  /\ "json" \in done
  /\ "parsed" \notin done
  /\ parsed' = parseNotebook(json)
  /\ done' = done \cup {"parsed"}
  /\ UNCHANGED <<input, notebook, json, cellsOut, formatted, tablevars>>
  /\ PureFrame

\* cellsOut = notebookToCells(...) of the document made from the cell list,
\* or of the document parsed from the file
NotebookToCells ==
  /\ "cells" \notin done
  /\ \/ /\ input.kind = "cells"
        /\ "notebook" \in done
        /\ cellsOut' = notebookToCells(notebook)
     \/ /\ input.kind = "file"
        /\ "parsed" \in done
        /\ parsed.ok
        /\ cellsOut' = notebookToCells(parsed.notebook)
  /\ done' = done \cup {"cells"}
  /\ UNCHANGED <<input, notebook, json, parsed, formatted, tablevars>>
  /\ PureFrame

\* formatted = formatOutput(output)
FormatOutput ==
  /\ input.kind = "output"
  /\ "formatted" \notin done
  /\ formatted' = formatOutput(input.output)
  /\ done' = done \cup {"formatted"}
  /\ UNCHANGED <<input, notebook, json, parsed, cellsOut, tablevars>>
  /\ PureFrame

NotebookNext ==
  \/ CellsToNotebook
  \/ SerializeNotebook
  \/ ParseNotebook
  \/ NotebookToCells
  \/ FormatOutput

NotebookStart ==
  /\ ServicesInit /\ hasWindow /\ ~tauri
  /\ PanelInit /\ NotebookInit /\ TableIdle /\ SimIdle

NotebookSpec == NotebookStart /\ [][NotebookNext]_vars

\* the formatters are given the rows of a query result
TableInit ==
  /\ rows \in RowSets
  /\ table = NoTable

\* table.plain = formatSQLTable(rows)
FormatSQLTable ==
  /\ table.plain = << >>
  /\ table' = [table EXCEPT !.plain = <<formatSQLTable(rows)>>]
  /\ UNCHANGED <<rows, nbvars>>
  /\ PureFrame

\* table.html = formatSQLTableHTML(rows)
FormatSQLTableHTML ==
  /\ table.html = << >>
  /\ table' = [table EXCEPT !.html = <<formatSQLTableHTML(rows)>>]
  /\ UNCHANGED <<rows, nbvars>>
  /\ PureFrame

TableNext ==
  \/ FormatSQLTable
  \/ FormatSQLTableHTML

TableStart ==
  /\ ServicesInit /\ hasWindow /\ tauri
  /\ PanelInit /\ NotebookIdle /\ TableInit /\ SimIdle

TableSpec == TableStart /\ [][TableNext]_vars

----------------------------------------------------------------------------
\* simulateExecution of the Python service

\* a source is about to be given to the Python service
SimInit ==
  /\ source \in PrintSources
  /\ simulated = << >>

\* PythonExecutionService.executeCode(source) where neither the interpreter
\* nor a backend is reachable: executionCount++, then (no window, so no
\* interpreter is loaded, and the request to the HTTP API fails)
\* simulateExecution(source).  It is the only call made, so nothing runs
\* between its segments.
SimulateExecution ==
  /\ simulated = << >>
  /\ executionCount' = executionCount + 1
  /\ simulated' = <<simulateExecutionOutputs(source, executionCount')>>
  /\ UNCHANGED <<executionCounts, pyodide, pyodideLoading, loadPyodide,
                 hasWindow, tauri, calls, issued, started, inits, lastResult,
                 returned, lastWaiter, resets, lastReset, panelvars, nbvars,
                 tablevars, source>>

SimNext == SimulateExecution

\* outside a browser: no window, so neither the interpreter nor the host
\* engine
SimStart ==
  /\ ServicesInit /\ ~hasWindow
  /\ PanelInit /\ NotebookIdle /\ TableIdle /\ SimInit

SimSpec == SimStart /\ [][SimNext]_vars

----------------------------------------------------------------------------
\* Properties

Delegated == {"sql", "rust", "r", "navlambda", "vnc"}

\* A step of the executeCode call(s) for language L: the call itself, or a
\* later segment of a suspended call for L.
StepOf(L) ==
  \/ started'[L] # started[L]
  \/ \E i \in Slots : calls[i].lang = L /\ calls'[i] # calls[i]

\* C1: an executeCode call for language L raises getExecutionCount(L) by
\* exactly one at the call, and no later segment of any call, whether it ends
\* in success or in failure, changes a counter: N calls raise it by N.
C1_CallIncrementsCounterByOne ==
  [][/\ \A L \in Languages :
          started'[L] = started[L] + 1 =>
            getExecutionCount(executionCounts', L)
              = getExecutionCount(executionCounts, L) + 1
     /\ issued' = issued => executionCounts' = executionCounts]_vars

\* C1 witness: two calls for one language were made, the later one ended with
\* success = false, and the counter of the language is 2.
C1_Witness ==
  /\ lastResult.seq = 2
  /\ lastResult.res.settle = "return"
  /\ ~lastResult.res.success
  /\ started[lastResult.lang] = 2
  /\ getExecutionCount(executionCounts, lastResult.lang) = 2

\* C2: an executeCode call for language L leaves the counter of every other
\* language M as it was, navlambda and vnc included: the counter of M changes
\* only in a step of an executeCode call for M.
C2_OtherCountersUnchanged ==
  [][\A M \in Languages :
       getExecutionCount(executionCounts', M)
         # getExecutionCount(executionCounts, M) => StepOf(M)]_vars

\* C2 witness: a vnc call has finished through the backend it shares with
\* navlambda, and the navlambda counter is still 0.
C2_Witness ==
  /\ lastResult.lang = "vnc"
  /\ started["vnc"] = 1
  /\ started["navlambda"] = 0
  /\ getExecutionCount(executionCounts, "vnc") = 1
  /\ getExecutionCount(executionCounts, "navlambda") = 0

\* C3: with calls made one after another on a fresh dispatcher (no reset),
\* the k-th call for a supported language returns execution_count = k.
C3_KthCallReturnsK ==
  (/\ resets = 0
   /\ Free = Slots
   /\ lastResult.lang \in SupportedLanguage
   /\ lastResult.res.settle = "return")
  => lastResult.res.execution_count = started[lastResult.lang]

\* C4: no call returns an execution_count that an earlier call for the same
\* language has returned (no reset happens in Spec).
C4_NoCountReturnedTwice ==
  [][(lastResult'.seq # lastResult.seq /\ lastResult'.res.settle = "return")
       => lastResult'.res.execution_count \notin returned[lastResult'.lang]]_vars

\* C5: in every result, success is false iff the error field is present iff
\* the outputs contain an output of type error.
C5_FailureIffErrorIffErrorOutput ==
  (lastResult.seq > 0 /\ lastResult.res.settle = "return") =>
    /\ (~lastResult.res.success) <=> (lastResult.res.error # "none")
    /\ (lastResult.res.error # "none") <=> HasErrorOutput(lastResult.res)

C8_HostFailureIsSimulated ==
  (/\ lastResult.lang \in Delegated
   /\ lastResult.tier \in {"absent", "importFail", "reject", "fail"})
  => /\ lastResult.res.settle = "return"
     /\ lastResult.res.success
     /\ lastResult.res.backend = "simulated"
     /\ ~HasErrorOutput(lastResult.res)

\* C8 witness: the host engine answered execute_sql with success = false and
\* the call returned the simulated response.
C8_Witness ==
  /\ lastResult.lang = "sql"
  /\ lastResult.tier = "fail"
  /\ lastResult.res.backend = "simulated"

\* C9 as claimed: at most one initialization sequence is ever started.
C9_InitStartedAtMostOnce == Len(inits) <= 1

\* C9 as amended: an initialization sequence that is in flight or has
\* completed successfully is the last one ever started; only a failed one is
\* followed by another.
C9_NoInitAfterRunningOrDone ==
  \A k \in 1..Len(inits) : inits[k] \in {"running", "ok"} => k = Len(inits)

\* C9 witness: a second initialization was started after a failed one and is
\* in flight while a later call waits for it.
C9_Witness ==
  /\ Len(inits) = 2
  /\ inits[1] = "fail"
  /\ inits[2] = "running"
  /\ \E i \in Slots : calls[i].pc = "poll"

\* C10: a caller that waited in the poll loop for an initialization in flight
\* sees the interpreter available iff that initialization succeeded, as the
\* caller that started it does.
C10_WaiterSeesOwnersOutcome ==
  lastWaiter.init # 0 => lastWaiter.saw = inits[lastWaiter.init]

C12_TimeoutIsReported ==
  (lastResult.seq > 0 /\ lastResult.tier = "timeout") =>
    /\ lastResult.res.settle = "return"
    /\ ~lastResult.res.success
    /\ lastResult.res.ename = "Timeout"

\* C13: no cell has two executions in flight at the same time.
C13_OneExecutionPerCell ==
  \A e, o \in ExecSlots :
    (e # o /\ executions[e].by # "none" /\ executions[o].by # "none")
      => executions[e].cell # executions[o].cell

\* C14: for every cell list, notebookToCells(cellsToNotebook(cells)) has the
\* same cells: id, kind, language, source text, outputs and executionCount of
\* every cell are those of the cell it was made from.
C14_RoundTripPreservesCells ==
  (input.kind = "cells" /\ "cells" \in done) =>
    /\ Len(cellsOut) = Len(input.cells)
    /\ \A k \in DOMAIN input.cells :
         /\ cellsOut[k].id = input.cells[k].id
         /\ cellsOut[k].type = input.cells[k].type
         /\ cellsOut[k].language = input.cells[k].language
         /\ cellsOut[k].content = input.cells[k].content
         /\ cellsOut[k].outputs = input.cells[k].outputs
         /\ cellsOut[k].executionCount = input.cells[k].executionCount

Concatenated(fragments) ==
  CASE Len(fragments) = 0 -> << >>
    [] Len(fragments) = 1 -> fragments[1]
    [] Len(fragments) = 2 -> fragments[1] \o fragments[2]
    [] Len(fragments) = 3 -> fragments[1] \o fragments[2] \o fragments[3]
    [] OTHER -> fragments[1] \o fragments[2] \o fragments[3] \o fragments[4]

FileValue == input.file.value

\* C16 as claimed: parseNotebook fails with a MalformedDocument error when
\* cells is absent or not a sequence, and with an UnsupportedVersion error
\* when the format version is below 4.
C16_ParseErrorKinds ==
  (input.kind = "file" /\ input.file.text = "json" /\ "parsed" \in done) =>
    /\ FileValue.cellsField # "array" =>
         ~parsed.ok /\ parsed.name = "MalformedDocument"
    /\ (FileValue.nbformat # 0 /\ FileValue.nbformat < 4) =>
         ~parsed.ok /\ parsed.name \in {"MalformedDocument", "UnsupportedVersion"}
    /\ (/\ FileValue.cellsField = "array"
        /\ FileValue.nbformat # 0
        /\ FileValue.nbformat < 4) => parsed.name = "UnsupportedVersion"

\* C16 as amended: parseNotebook returns no document and throws a plain
\* Error, with the message of the missing cells array when cells is absent
\* or not a sequence, and with the message of the unsupported version when
\* cells is a sequence and the format version is absent or below 4.
C16_ParseErrorMessages ==
  (input.kind = "file" /\ input.file.text = "json" /\ "parsed" \in done) =>
    /\ FileValue.cellsField # "array" =>
         /\ ~parsed.ok
         /\ parsed.name = "Error"
         /\ parsed.message = "Failed to parse notebook: Invalid notebook format: missing cells array"
    /\ (FileValue.cellsField = "array" /\ FileValue.nbformat < 4) =>
         /\ ~parsed.ok
         /\ parsed.name = "Error"
         /\ parsed.message = "Failed to parse notebook: Unsupported notebook format version"

\* C16 witness: a file with a cells array and format version 3 was refused.
C16_Witness ==
  /\ input.kind = "file"
  /\ input.file.text = "json"
  /\ "parsed" \in done
  /\ FileValue.cellsField = "array"
  /\ FileValue.nbformat = 3
  /\ ~parsed.ok

\* C17: in every document parseNotebook returns, each cell's source is one
\* string: the fragments of a source array put one after another with
\* nothing in between, and a source string as it was.
C17_SourceIsOneString ==
  (input.kind = "file" /\ "parsed" \in done /\ parsed.ok) =>
    \A k \in DOMAIN FileValue.cells :
      LET before == FileValue.cells[k].source
          after == parsed.notebook.cells[k].source
      IN  /\ after.kind = "string"
          /\ Len(after.fragments) = 1
          /\ before.kind = "array" =>
               after.fragments[1] = Concatenated(before.fragments)
          /\ before.kind = "string" => after = before

\* C17 witness: a file whose first cell has a source array of three
\* fragments was parsed.
C17_Witness ==
  /\ input.kind = "file"
  /\ "parsed" \in done
  /\ parsed.ok
  /\ Len(FileValue.cells) > 0
  /\ FileValue.cells[1].source.kind = "array"
  /\ Len(FileValue.cells[1].source.fragments) = 3

\* C18: the language notebookToCells gives a cell is the cell's language tag
\* if it has one; else the document's language tag (of the kernelspec, else
\* of language_info) if it has one; else python for a code cell and markdown
\* for any other cell.
C18_LanguagePrecedence ==
  (input.kind = "file" /\ "cells" \in done) =>
    \A k \in DOMAIN cellsOut :
      LET cell == parsed.notebook.cells[k]
          doc == parsed.notebook
          language == cellsOut[k].language
      IN  /\ cell.metadata # "absent" => language = cell.metadata
          /\ (cell.metadata = "absent" /\ doc.kernelspec # "absent") =>
               language = doc.kernelspec
          /\ (/\ cell.metadata = "absent"
              /\ doc.kernelspec = "absent"
              /\ doc.language_info # "absent") => language = doc.language_info
          /\ (/\ cell.metadata = "absent"
              /\ doc.kernelspec = "absent"
              /\ doc.language_info = "absent") =>
               language = IF cell.cell_type = "code" THEN "python"
                          ELSE "markdown"

\* C18 witness: a cell tagged sql in a document tagged r got the language sql.
C18_Witness ==
  /\ input.kind = "file"
  /\ "cells" \in done
  /\ Len(cellsOut) > 0
  /\ parsed.notebook.cells[1].metadata = "sql"
  /\ parsed.notebook.kernelspec = "r"
  /\ cellsOut[1].language = "sql"

\* C19: for an execute_result or display_data output, formatOutput returns
\* the content of exactly one representation, the first of image/png,
\* image/jpeg, image/svg+xml, text/html, text/plain that the output has
\* (with a non-empty value), and empty text when it has none of them.
C19_FixedPreferenceOrder ==
  (/\ input.kind = "output"
   /\ "formatted" \in done
   /\ input.output.output_type \in {"execute_result", "display_data"}) =>
    LET has(m) == input.output.hasData /\ input.output.data[m] = "value"
    IN  formatted.content =
          IF has("image/png") THEN "image/png"
          ELSE IF has("image/jpeg") THEN "image/jpeg"
          ELSE IF has("image/svg+xml") THEN "image/svg+xml"
          ELSE IF has("text/html") THEN "text/html"
          ELSE IF has("text/plain") THEN "text/plain"
          ELSE ""

\* C19 witness: an output with both image/png and text/html was formatted as
\* the image.
C19_Witness ==
  /\ input.kind = "output"
  /\ "formatted" \in done
  /\ input.output.hasData
  /\ input.output.data["image/png"] = "value"
  /\ input.output.data["text/html"] = "value"
  /\ formatted.type = "image"
  /\ formatted.mimeType = "image/png"

\* C20: given n uniform rows, each table formatter renders min(n, 100) data
\* rows; when n > 100 it appends a trailer reporting exactly n - 100 more
\* rows (and no trailer otherwise); when n = 0 it returns the literal
\* no-rows message instead of a table.
C20_RowsShownAndTrailer ==
  /\ table.plain # << >> =>
       LET t == table.plain[1]
           n == Len(rows)
       IN  /\ Len(t.dataRows) = (IF n < 100 THEN n ELSE 100)
           /\ t.trailer = (IF n > 100
                             THEN "... (" \o ToString(n - 100) \o " more rows)"
                             ELSE "")
           /\ t.message = (IF n = 0 THEN "No rows returned" ELSE "")
           /\ (n = 0) <=> (t.header = "")
  /\ table.html # << >> =>
       LET t == table.html[1]
           n == Len(rows)
       IN  /\ Len(t.dataRows) = (IF n < 100 THEN n ELSE 100)
           /\ t.trailer = (IF n > 100
                             THEN "<div>... (" \o ToString(n - 100)
                                    \o " more rows)</div>"
                             ELSE "")
           /\ t.message = (IF n = 0 THEN "<div>No rows returned</div>" ELSE "")
           /\ (n = 0) <=> (t.header = "")

\* 150 rows give 100 data rows and a "50 more rows" trailer, in both formats
C20_Witness ==
  /\ Len(rows) = 150
  /\ table.plain # << >>
  /\ table.html # << >>
  /\ Len(table.plain[1].dataRows) = 100
  /\ table.plain[1].dataRows[100] = "100 | "
  /\ table.plain[1].trailer = "... (50 more rows)"
  /\ table.html[1].trailer = "<div>... (50 more rows)</div>"

\* C21: resetExecutionCount(L) sets the counter of L to 0 and leaves every
\* other counter as it was; resetExecutionCount() sets every counter to 0
\* (the reset of the Python service sets its own counter to 0 and leaves the
\* dispatcher's counters alone); and the first executeCode call for a
\* language after a reset that covered it returns execution_count 1.  The
\* counter of a language covered by the latest reset is 0 when a call enters
\* (the call took count 1) exactly when no call for it was made since.
C21_ResetThenCountOne ==
  [][/\ (resets' = resets + 1 /\ lastReset' \in Languages) =>
          /\ getExecutionCount(executionCounts', lastReset') = 0
          /\ \A M \in Languages \ {lastReset'} :
               getExecutionCount(executionCounts', M)
                 = getExecutionCount(executionCounts, M)
     /\ (resets' = resets + 1 /\ lastReset' = "all") =>
          \A L \in Languages : getExecutionCount(executionCounts', L) = 0
     /\ (resets' = resets + 1 /\ lastReset' = "PythonExecutionService") =>
          executionCount' = 0 /\ executionCounts' = executionCounts
     /\ (/\ lastResult'.seq # lastResult.seq
         /\ lastResult'.lang \in SupportedLanguage
         /\ lastReset \in {lastResult'.lang, "all"}
         /\ lastResult'.dcount = 1) =>
          /\ lastResult'.res.settle = "return"
          /\ lastResult'.res.execution_count = 1]_vars

\* C30: with executeCode and reset operations made one after another, the
\* execution_count in the result of an executeCode call for a supported
\* language L equals getExecutionCount(L) read right after the call returns.
C30_ResultCountIsCounter ==
  [][(lastResult'.seq # lastResult.seq
      /\ lastResult'.lang \in SupportedLanguage) =>
       /\ lastResult'.res.settle = "return"
       /\ lastResult'.res.execution_count
            = getExecutionCount(executionCounts', lastResult'.lang)]_vars

\* what a result of compile_rust reports: the compiler's output, or
\* 'Compilation successful'
CompilationStatus == {"host output", "Compilation successful"}

\* C22: in an executeCode call for rust with compileOnly set, the host
\* command execute_rust is never invoked, and a result with success = true
\* reports the compilation status, not the output of a run.
C22_CompileOnlyNeverExecutes ==
  [][\A i \in Slots :
       /\ (/\ calls'[i].lang = "rust"
           /\ calls'[i].compileOnly
           /\ calls'[i].pc = "invoke") => calls'[i].cmd # "execute_rust"
       /\ (/\ calls[i].lang = "rust"
           /\ calls[i].compileOnly
           /\ calls'[i].pc = "idle"
           /\ lastResult'.res.settle = "return"
           /\ lastResult'.res.success) =>
            lastResult'.res.text \in CompilationStatus]_vars

\* C23: every result made by a simulated backend (simulateExecution of the
\* Python service, executeSQLWeb, the fallbacks of executeRust, executeR and
\* executeNavLambda) is a returned result with success = true, whatever the
\* source text is.
C23_SimulatedAlwaysSucceeds ==
  (lastResult.seq > 0 /\ lastResult.res.backend = "simulated") =>
    /\ lastResult.res.settle = "return"
    /\ lastResult.res.success
    /\ ~HasErrorOutput(lastResult.res)

\* C23 witness: a statement that is not a SELECT went through executeSQLWeb,
\* as the second call after a python call that has returned.
C23_Witness ==
  /\ lastResult.lang = "sql"
  /\ lastResult.res.backend = "simulated"
  /\ lastResult.res.text = "SQL command executed (simulated)"
  /\ lastResult.res.success
  /\ lastResult.seq = 2
  /\ started["python"] = 1
  /\ \E n \in returned["python"] : TRUE

\* the text a print statement is to print: the text between the quotes of a
\* string literal, the argument as written otherwise
Literal(argument) ==
  IF /\ Len(argument) >= 2
     /\ IsQuote(argument[1])
     /\ argument[Len(argument)] = argument[1]
  THEN SubSeq(argument, 2, Len(argument) - 1)
  ELSE argument

\* part occurs in text, its characters next to each other
Contains(text, part) ==
  \E k \in 0..(Len(text) - Len(part)) :
    \A j \in 1..Len(part) : text[k + j] = part[j]

\* C24: with neither the interpreter nor a backend reachable, the first
\* executeCode for python of a source made of print statements returns
\* success = true, execution_count = 1 and exactly one stream output on
\* stdout per print statement, the k-th containing the literal text of the
\* k-th statement.
C24_OneStreamPerPrint ==
  (simulated # << >> /\ ~source.importsMatplotlib) =>
    LET res == simulated[1]
    IN  /\ res.success
        /\ res.execution_count = 1
        /\ Len(res.outputs) = Len(source.statements)
        /\ \A k \in 1..Len(res.outputs) :
             /\ res.outputs[k].output_type = "stream"
             /\ res.outputs[k].name = "stdout"
             /\ k <= Len(source.statements) =>
                  Contains(res.outputs[k].text, Literal(source.statements[k]))

\* how a call ends that found no host engine to talk to: window.__TAURI__ is
\* not set, the host API failed to load, or the host call was rejected
Unreachable == {"absent", "importFail", "reject"}

\* C25: with no engine reachable, executeCode('sql', source) for a source
\* that starts with SELECT returns success = true and one execute_result
\* output whose text/plain says the execution was simulated.
C25_SelectIsSimulated ==
  (/\ lastResult.lang = "sql"
   /\ lastResult.code = "SELECT 1"
   /\ lastResult.tier \in Unreachable) =>
    /\ lastResult.res.settle = "return"
    /\ lastResult.res.success
    /\ lastResult.res.outputs = <<"execute_result">>
    /\ lastResult.res.text = "Query executed successfully (Simulated)"

\* C25 witness: a SELECT whose host call was rejected has returned the
\* simulated result.
C25_Witness ==
  /\ lastResult.lang = "sql"
  /\ lastResult.code = "SELECT 1"
  /\ lastResult.tier = "reject"
  /\ lastResult.res.success
  /\ lastResult.res.outputs = <<"execute_result">>
  /\ lastResult.res.backend = "simulated"

\* C26: when the code run by the in-process interpreter fails, building the
\* failure result does not throw: executeWithPyodide returns a result with
\* success = false, an error output and a non-empty traceback, the one made
\* of the thrown error when the interpreter's own traceback cannot be
\* retrieved.  (A python call with tier "none" is one that ran in the
\* interpreter.)
C26_FailureResultNeverThrows ==
  (lastResult.seq > 0 /\ lastResult.lang = "python" /\ lastResult.tier = "none")
    => /\ ~lastResult.threw
       /\ lastResult.res.settle = "return"
       /\ lastResult.res.backend = "pyodide"
       /\ ~lastResult.res.success =>
            /\ HasErrorOutput(lastResult.res)
            /\ lastResult.res.traceback # << >>
            /\ lastResult.res.evalue = "String(error)" =>
                 lastResult.res.traceback = <<"error.stack">>

\* C26 witness: the code failed in the interpreter, the traceback could not
\* be retrieved, and the call returned the generic trace.
C26_Witness ==
  /\ lastResult.lang = "python"
  /\ lastResult.tier = "none"
  /\ ~lastResult.res.success
  /\ lastResult.res.evalue = "String(error)"
  /\ lastResult.res.traceback = <<"error.stack">>

C28_DistinctIds ==
  "cells" \in done =>
    LET doc == IF input.kind = "file" THEN parsed.notebook.cells
               ELSE notebook.cells
    IN  (\A a, b \in DOMAIN doc :
           (a # b /\ doc[a].id # "absent") => doc[a].id # doc[b].id)
          => \A a, b \in DOMAIN cellsOut :
               a # b => cellsOut[a].id # cellsOut[b].id

\* the load sequences in flight, and the calls that are inside one
Running == {k \in DOMAIN inits : inits[k] = "running"}
Loaders == {i \in Slots : calls[i].pc \in {"script", "loadPyodide", "loadPackage"}}

\* C29: at no time are two initialization sequences of the in-process
\* interpreter in flight together (at most one is running, inside one call,
\* and exactly while pyodideLoading is set), and a call that reaches
\* initializePyodide while a load is in progress starts no load: it goes to
\* the wait loop.
C29_OneInitInFlight ==
  /\ [](/\ Cardinality(Running) <= 1
        /\ Cardinality(Loaders) = Cardinality(Running)
        /\ pyodideLoading <=> Running # {})
  /\ [][pyodideLoading =>
          /\ Len(inits') = Len(inits)
          /\ (issued' # issued /\ pyodide = "null") =>
               \E i \in Slots : calls[i].pc = "idle" /\ calls'[i].pc = "poll"]_vars

\* C29 witness: one call is loading the interpreter and another, made in the
\* meantime, waits in the poll loop; one load has been started.
C29_Witness ==
  /\ pyodideLoading
  /\ Cardinality(Running) = 1
  /\ Len(inits) = 1
  /\ \E i, j \in Slots :
       /\ calls[i].pc = "loadPyodide"
       /\ calls[j].pc = "poll"
       /\ calls[j].init = 1

====
